---- MODULE Spec2Model ----
(***************************************************************************)
(* Model of the lst-activ scripts:                                         *)
(*   price_alert/common.py      SubscriptionHandlerAlert                   *)
(*   equity_snapshot/get_current_prices.py   request loop, poll loop       *)
(*   option_snapshot/get_current_prices_options.py  handlers, poll loops,  *)
(*                               option-chain reconciliation and filter    *)
(* Each script is a specification of its own over the shared variables;    *)
(* the variables of the other scripts keep their initial values.           *)
(***************************************************************************)
EXTENDS Integers, Sequences, FiniteSets, TLC

VARIABLES
    \* ---- price_alert/common.py : one SubscriptionHandlerAlert ----
    alert,            \* self.alert (the alert's configuration dict)
    previous_trade,   \* self.previous_trade
    alert_sent,       \* self.alert_sent
    error,            \* self.error
    http_log,         \* the HTTP POSTs issued so far: <<[url, status], ...>>
    history,          \* the Trade value of each on_subscription_update call so far
    call              \* the last on_subscription_update call: its outcome

alertVars == <<alert, previous_trade, alert_sent, error, http_log, history, call>>

VARIABLES
    \* ---- get_current_prices.py / get_current_prices_options.py ----
    \* ---- request loop, snapshot poll loop and its finally block ----
    symbolList,       \* config['symbols']
    handlers,         \* the snapshot handlers created, in creation order
    handles,          \* the handle session.snapshot returned for each: open/closed
    handlerBySymbol,  \* dict symbol -> handler (index into handlers)
    handleBySymbol,   \* dict symbol -> handle (index into handles)
    snapshotComplete, \* the poll loop's flag
    pc,               \* the script's position
    exc,              \* the exception in flight or that ended the script, or "none"
    script,           \* which script runs: "equity", "options" (or "handler", "alert")
    callback          \* the last snapshot callback delivered: its message and the
                      \* handler's data before it

snapVars == <<symbolList, handlers, handles, handlerBySymbol, handleBySymbol,
              snapshotComplete, pc, exc, script, callback>>

VARIABLES
    \* ---- get_current_prices_options.py after the poll loop ----
    option_data_pd,             \* the cached option_data.csv as read
    underlying_curent_prices,   \* [Symbol, LastReportedTrade] of each handler
    u,                          \* position of the loops over underlying_curent_prices
    query,                      \* the QueryHandler of the query in progress
    queries,                    \* per finished query: its symbol and handler.symbols
    option_symbols_new,         \* the new option symbols still to snapshot
    option_data,                \* rows of the new options
    option_data_updated_list,   \* the frames to concatenate
    option_data_output_pd,      \* the concatenated, sorted and converted frame
    options_full_file,          \* option_data.csv
    option_symbol_filtered,     \* the selected options still to snapshot
    selections,                 \* per underlying: the options the filter selected
    option_data_filtered,       \* rows for option_data_filtered.csv
    options_filtered_file,      \* option_data_filtered.csv
    snapshot_log                \* the option symbols passed to session.snapshot

optVars == <<option_data_pd, underlying_curent_prices, u, query, queries,
             option_symbols_new, option_data, option_data_updated_list,
             option_data_output_pd, options_full_file, option_symbol_filtered,
             selections, option_data_filtered, options_filtered_file, snapshot_log>>

VARIABLES
    \* ---- price_alert/price_alert.py : main thread and watcher thread ----
    config_file,          \* the configuration file: its st_mtime and its alerts
    config_modified_time, \* global config_modified_time
    config_updated,       \* global config_updated
    config,               \* the loaded configuration: config['alerts'] (alertIDs)
    loaded_mtime,         \* st_mtime the file had when config was read from it
    subscriptions,        \* per session.subscribe call: alertID, generation of
                          \* the configuration, handle open/closed, handler.error
    generation,           \* number of configurations loaded so far
    handler_by_alertID,   \* dict alertID -> handler (index into subscriptions)
    handle_by_alertID,    \* dict alertID -> handle (index into subscriptions)
    subscriptionError,    \* the main loop's flag
    main_pc,              \* position of the main thread
    main_exc,             \* the exception that ended the main thread, or "none"
    watch_pc,             \* position of the watcher thread
    timer_cancelled       \* config_watch_timer.cancel() was called

mainVars == <<config_file, config_modified_time, config_updated, config,
              loaded_mtime, subscriptions, generation, handler_by_alertID,
              handle_by_alertID, subscriptionError, main_pc, main_exc, watch_pc,
              timer_cancelled>>

vars == <<alertVars, snapVars, optVars, mainVars>>

\* Python's None, a value outside the Trade values
None == -1

(***************************************************************************)
(* Bounds                                                                  *)
(***************************************************************************)
MaxTrade == 3       \* Trade values are 0..MaxTrade
MaxUpdates == 3     \* subscription updates delivered to one handler
MaxSymbols == 3     \* length of config['symbols']
MaxCallbacks == 2   \* snapshot callbacks delivered to one handler
MaxCached == 2      \* rows of the cached option_data.csv

(***************************************************************************)
(* price_alert/common.py                                                   *)
(***************************************************************************)
HTTP_OK == 200

TradeValues == 0..MaxTrade
Thresholds == 1..(MaxTrade - 1)
Conditions == {">", "<", "cross above", "cross below", "between"}
Endpoints == {"http://a/notify", "http://b/notify"}
\* response.status_code of requests.post
StatusCodes == {200, 500}

\* The alert dicts: every alert carries condition, value and notification;
\* the key 'price' is present in some configurations only.
AlertConfigs ==
    [condition : Conditions, value : Thresholds, endpoint : Endpoints]
    \cup [condition : Conditions, value : Thresholds, endpoint : Endpoints,
          price : Thresholds]

\* a > b of Python 3: TypeError when an operand is None
PyCompare(a, b) == IF a = None \/ b = None THEN "TypeError" ELSE "ok"

NoCall == [made |-> FALSE]

\* A comparison result of the condition chain: the exception raised, if
\* any, and the value alert_triggered has after it.
Raised(e) == [exc |-> e, triggered |-> FALSE]
Decided(t) == [exc |-> "none", triggered |-> t]

\* Mutant of CondGreater: >= for >
CondGreaterOrEqual(a, trade) ==
    IF PyCompare(trade, a.value) # "ok" THEN Raised("TypeError")
    ELSE Decided(trade >= a.value)

\* condition == ">"
CondGreater(a, trade) ==
    IF PyCompare(trade, a.value) # "ok" THEN Raised("TypeError")
    ELSE Decided(trade > a.value)

\* condition == "<"
CondLess(a, trade) ==
    IF PyCompare(trade, a.value) # "ok" THEN Raised("TypeError")
    ELSE Decided(trade < a.value)

\* Mutant of CondCrossAbove: the test of previous_trade is dropped
CondCrossAboveNoPrevious(a, prev, trade) ==
    IF PyCompare(trade, a.value) # "ok" THEN Raised("TypeError")
    ELSE Decided(trade > a.value)

\* condition == "cross above":
\*   previous_trade is not None, then
\*   not previous_trade > value and trade > value  (and short-circuits)
CondCrossAbove(a, prev, trade) ==
    IF prev = None THEN Decided(FALSE)
    ELSE IF prev > a.value THEN Decided(FALSE)
    ELSE IF PyCompare(trade, a.value) # "ok" THEN Raised("TypeError")
    ELSE Decided(trade > a.value)

\* condition == "cross below": as "cross above", but the threshold is read
\* from alert['price'], a KeyError when the alert has no such key
CondCrossBelow(a, prev, trade) ==
    IF prev = None THEN Decided(FALSE)
    ELSE IF "price" \notin DOMAIN a THEN Raised("KeyError")
    ELSE IF prev < a.price THEN Decided(FALSE)
    ELSE IF PyCompare(trade, a.price) # "ok" THEN Raised("TypeError")
    ELSE Decided(trade < a.price)

\* The condition chain of on_subscription_update
EvaluateCondition(a, prev, trade) ==
    CASE a.condition = ">" -> CondGreater(a, trade)
      [] a.condition = "<" -> CondLess(a, trade)
      [] a.condition = "cross above" -> CondCrossAbove(a, prev, trade)
      [] a.condition = "cross below" -> CondCrossBelow(a, prev, trade)
      [] OTHER -> Decided(FALSE)   \* "Invalid alert condition" is logged

\* Mutant of send_alert: alert_sent is set whatever the response is
send_alertAnyStatus(status) ==
    /\ http_log' = Append(http_log, [url |-> alert.endpoint, status |-> status])
    /\ alert_sent' = TRUE

\* send_alert: one POST to alert['notification']['endpoint']; alert_sent
\* becomes True on a 200 response only.
send_alert(status) ==
    /\ http_log' = Append(http_log, [url |-> alert.endpoint, status |-> status])
    /\ alert_sent' = IF status = HTTP_OK THEN TRUE ELSE alert_sent

InitAlertVars ==
    /\ alert \in AlertConfigs
    /\ previous_trade = None
    /\ alert_sent = FALSE
    /\ error = FALSE
    /\ http_log = <<>>
    /\ history = <<>>
    /\ call = NoCall

\* The state of the other scripts while the alert handler runs
IdleSnap ==
    /\ script = "alert"
    /\ symbolList = <<>>
    /\ pc = "idle"
    /\ handlers = <<>>
    /\ handles = <<>>
    /\ handlerBySymbol = <<>>
    /\ handleBySymbol = <<>>
    /\ snapshotComplete = FALSE
    /\ exc = "none"
    /\ callback = NoCall

\* The state of the options script's later phases before they start
NoFile == [written |-> FALSE, rows |-> <<>>]
NoQuery == [open |-> FALSE]

IdleOptions ==
    /\ option_data_pd = <<>>
    /\ underlying_curent_prices = <<>>
    /\ u = 0
    /\ query = NoQuery
    /\ queries = <<>>
    /\ option_symbols_new = <<>>
    /\ option_data = <<>>
    /\ option_data_updated_list = <<>>
    /\ option_data_output_pd = <<>>
    /\ options_full_file = NoFile
    /\ option_symbol_filtered = <<>>
    /\ selections = <<>>
    /\ option_data_filtered = <<>>
    /\ options_filtered_file = NoFile
    /\ snapshot_log = <<>>

\* The state of price_alert.py while the other scripts run
IdleMain ==
    /\ config_file = [mtime |-> 0, alerts |-> <<>>]
    /\ config_modified_time = 0
    /\ config_updated = FALSE
    /\ config = <<>>
    /\ loaded_mtime = 0
    /\ subscriptions = <<>>
    /\ generation = 0
    /\ handler_by_alertID = <<>>
    /\ handle_by_alertID = <<>>
    /\ subscriptionError = FALSE
    /\ main_pc = "idle"
    /\ main_exc = "none"
    /\ watch_pc = "idle"
    /\ timer_cancelled = FALSE

\* on_subscription_update with a message whose Trade field is `trade`
\* (None: the message carries no Trade field); `status` is the response
\* the endpoint gives if a POST is issued.
on_subscription_update(trade, status) ==
    LET r == EvaluateCondition(alert, previous_trade, trade)
        post == r.exc = "none" /\ ~alert_sent /\ r.triggered
    IN  /\ Len(history) < MaxUpdates
        /\ history' = Append(history, trade)
        /\ call' = [made |-> TRUE, sent_before |-> alert_sent, exc |-> r.exc,
                    triggered |-> r.triggered, log_before |-> Len(http_log)]
        /\ IF r.exc # "none"
           THEN UNCHANGED <<previous_trade, alert_sent, http_log>>
           ELSE /\ previous_trade' = trade
                /\ IF post
                   THEN send_alert(status)
                   ELSE UNCHANGED <<alert_sent, http_log>>
        /\ UNCHANGED <<alert, error>>

\* on_subscription_error and on_subscription_failure
on_subscription_error ==
    /\ error' = TRUE
    /\ UNCHANGED <<alert, previous_trade, alert_sent, http_log, history, call>>

\* The state of the alert handler while the other scripts run
IdleAlert ==
    /\ alert = [condition |-> "none"]
    /\ previous_trade = None
    /\ alert_sent = FALSE
    /\ error = FALSE
    /\ http_log = <<>>
    /\ history = <<>>
    /\ call = NoCall

InitAlert == InitAlertVars /\ IdleSnap /\ IdleOptions /\ IdleMain

NextAlert ==
    \/ (\E trade \in TradeValues \cup {None}, status \in StatusCodes :
          on_subscription_update(trade, status)) /\ UNCHANGED <<snapVars, optVars, mainVars>>
    \/ on_subscription_error /\ UNCHANGED <<snapVars, optVars, mainVars>>

SpecAlert == InitAlert /\ [][NextAlert]_vars

(***************************************************************************)
(* Python dicts: insertion-ordered, an assignment to a present key keeps   *)
(* the key's position and replaces its value.                              *)
(***************************************************************************)
EmptyDict == <<>>
DictKeys(d) == {d[j].k : j \in 1..Len(d)}
DictGet(d, key) == (CHOOSE j \in 1..Len(d) : d[j].k = key)
DictSet(d, key, val) ==
    IF key \in DictKeys(d)
    THEN [j \in 1..Len(d) |-> IF d[j].k = key THEN [k |-> key, v |-> val] ELSE d[j]]
    ELSE Append(d, [k |-> key, v |-> val])
\* d.values(), in iteration order
DictValues(d) == [j \in 1..Len(d) |-> d[j].v]

(***************************************************************************)
(* get_current_prices.py: request loop, poll loop, finally                 *)
(***************************************************************************)
Symbols == {"A", "B"}

\* the sequences over S of length at most n
SeqsUpTo(S, n) == UNION {[1..m -> S] : m \in 0..n}

(***************************************************************************)
(* The snapshot handlers                                                   *)
(*   "plain"  SnapshotHandler            (get_current_prices.py)           *)
(*   "trade"  SnapshotHandlerTradeInfo   (both scripts)                    *)
(*   "option" SnapshotHandlerOptionInfo  (get_current_prices_options.py)   *)
(***************************************************************************)
TradeInfoKeys ==
    {"LastReportedTrade", "LastReportedTradeSize", "LastReportedTradeTime",
     "LastReportedTradeDate", "Bid", "BidSize", "BidTime", "Ask", "AskSize",
     "AskTime", "TradeHigh", "TradeHighTime", "TradeLow", "TradeLowTime",
     "Open", "OpenTime", "PreviousClose", "PreviousOpen", "PreviousTradeHigh",
     "PreviousTradeLow", "PreviousPercentChange", "Currency", "Symbol"}

OptionInfoKeys ==
    {"ClosingBid", "ClosingAsk", "Close", "Bid", "BidSize", "Ask", "AskSize",
     "OpenInterest", "Trade", "TradeSize", "CumulativeValue",
     "CumulativeVolume", "ExpirationDate", "OptionType", "StrikePrice",
     "Symbol"}

\* self.data of __init__: every key holds ""
InitialData(kind) ==
    CASE kind = "trade" -> [k \in TradeInfoKeys |-> ""]
      [] kind = "option" -> [k \in OptionInfoKeys |-> ""]
      [] OTHER -> <<>>

\* __init__ of the three handler classes; `symbol` is the symbol the
\* handler is then passed to session.snapshot with
NewSnapshotHandler(kind, symbol) ==
    [kind |-> kind, symbol |-> symbol, complete |-> FALSE, data |-> InitialData(kind)]

\* The field ids of a message and context.session.metadata.get_field_name
FieldIds == {"FID_SYMBOL", "FID_LAST_REPORTED_TRADE", "FID_STRIKE_PRICE",
             "FID_EXPIRATION_DATE", "FID_OPTION_TYPE", "FID_PERMISSION_ID"}

get_field_name(fid) ==
    CASE fid = "FID_SYMBOL" -> "Symbol"
      [] fid = "FID_LAST_REPORTED_TRADE" -> "LastReportedTrade"
      [] fid = "FID_STRIKE_PRICE" -> "StrikePrice"
      [] fid = "FID_EXPIRATION_DATE" -> "ExpirationDate"
      [] fid = "FID_OPTION_TYPE" -> "OptionType"
      [] fid = "FID_PERMISSION_ID" -> "PermissionId"

\* A Field of the feed wraps a value; to_native unwraps it
Field(v) == [wrapped |-> v]
to_native(field) == field.wrapped

\* Mutant of StoreField: the test `field_name in self.data.keys()` is missing
StoreFieldAnyKey(data, field_name, value) ==
    [k \in DOMAIN data \cup {field_name} |-> IF k = field_name THEN value ELSE data[k]]

\* if field_name in self.data.keys(): self.data[field_name] = value
StoreField(data, field_name, value) ==
    IF field_name \in DOMAIN data
    THEN [data EXCEPT ![field_name] = value]
    ELSE data

\* for (fid, field) in msg.fields.items(): ... over the fids not yet visited
RECURSIVE StoreFields(_, _, _)
StoreFields(data, fields, fids) ==
    IF fids = {} THEN data
    ELSE LET fid == CHOOSE f \in fids : TRUE
         IN  StoreFields(StoreField(data, get_field_name(fid), to_native(fields[fid])),
                         fields, fids \ {fid})

\* on_snapshot: SnapshotHandler prints the fields, the other two store them
on_snapshot(h, msg) ==
    IF h.kind = "plain"
    THEN [h EXCEPT !.complete = TRUE]
    ELSE [h EXCEPT !.complete = TRUE,
                   !.data = StoreFields(h.data, msg, DOMAIN msg)]

\* on_snapshot_failure (the three classes agree)
on_snapshot_failure(h) == [h EXCEPT !.complete = TRUE]

(***************************************************************************)
(* SpecHandler: one SnapshotHandlerTradeInfo or SnapshotHandlerOptionInfo  *)
(* under any sequence of callbacks                                         *)
(***************************************************************************)
FieldValues == {"A", "100"}

\* msg.fields: some of the field ids, each with a Field
Messages(fids, values) ==
    UNION {[S -> {Field(v) : v \in values}] : S \in SUBSET fids}

HandlerFieldIds == {"FID_SYMBOL", "FID_LAST_REPORTED_TRADE", "FID_STRIKE_PRICE",
                    "FID_PERMISSION_ID"}

InitHandler ==
    /\ script = "handler"
    /\ symbolList = <<>>
    /\ pc = "callbacks"
    /\ \E kind \in {"trade", "option"} : handlers = <<NewSnapshotHandler(kind, "A")>>
    /\ handles = <<"open">>
    /\ handlerBySymbol = EmptyDict
    /\ handleBySymbol = EmptyDict
    /\ snapshotComplete = FALSE
    /\ exc = "none"
    /\ callback = [made |-> FALSE, count |-> 0]
    /\ IdleAlert
    /\ IdleOptions
    /\ IdleMain

HandlerOnSnapshot(msg) ==
    /\ callback.count < MaxCallbacks
    /\ handlers' = <<on_snapshot(handlers[1], msg)>>
    /\ callback' = [made |-> TRUE, count |-> callback.count + 1, name |-> "on_snapshot",
                    fields |-> msg, data_before |-> handlers[1].data]
    /\ UNCHANGED <<symbolList, handles, handlerBySymbol, handleBySymbol,
                   snapshotComplete, pc, exc, script>>

HandlerOnSnapshotFailure ==
    /\ callback.count < MaxCallbacks
    /\ handlers' = <<on_snapshot_failure(handlers[1])>>
    /\ callback' = [made |-> TRUE, count |-> callback.count + 1,
                    name |-> "on_snapshot_failure",
                    fields |-> <<>>, data_before |-> handlers[1].data]
    /\ UNCHANGED <<symbolList, handles, handlerBySymbol, handleBySymbol,
                   snapshotComplete, pc, exc, script>>

NextHandler ==
    \/ (\E msg \in Messages(HandlerFieldIds, FieldValues) : HandlerOnSnapshot(msg))
         /\ UNCHANGED <<alertVars, optVars, mainVars>>
    \/ HandlerOnSnapshotFailure /\ UNCHANGED <<alertVars, optVars, mainVars>>

SpecHandler == InitHandler /\ [][NextHandler]_vars

(***************************************************************************)
(* get_current_prices.py: request loop, poll loop, finally                 *)
(***************************************************************************)
\* the handler class each script creates in its request loop
HandlerKind == IF script = "equity" THEN "plain" ELSE "trade"

InitSnapVars ==
    /\ handlers = <<>>
    /\ handles = <<>>
    /\ handlerBySymbol = EmptyDict
    /\ handleBySymbol = EmptyDict
    /\ snapshotComplete = FALSE
    /\ exc = "none"
    /\ callback = NoCall

InitSnap ==
    /\ script = "equity"
    /\ symbolList \in SeqsUpTo(Symbols, MaxSymbols)
    /\ pc = "request"
    /\ InitSnapVars
    /\ IdleAlert
    /\ IdleMain
    /\ IdleOptions

\* One iteration of `for symbol in symbolList`: a handler is created and
\* stored, session.snapshot returns a handle, the handle is stored.
RequestSnapshot ==
    /\ pc = "request"
    /\ Len(handlers) < Len(symbolList)
    /\ LET symbol == symbolList[Len(handlers) + 1]
           id == Len(handlers) + 1
       IN  /\ handlers' = Append(handlers, NewSnapshotHandler(HandlerKind, symbol))
           /\ handlerBySymbol' = DictSet(handlerBySymbol, symbol, id)
           /\ handles' = Append(handles, "open")
           /\ handleBySymbol' = DictSet(handleBySymbol, symbol, id)
    /\ UNCHANGED <<symbolList, snapshotComplete, pc, exc, script, callback>>

\* session.snapshot raises: the request loop is outside the try block, so
\* the script ends with the exception and the finally block does not run.
RequestRaises ==
    /\ pc = "request"
    /\ Len(handlers) < Len(symbolList)
    /\ LET symbol == symbolList[Len(handlers) + 1]
           id == Len(handlers) + 1
       IN  /\ handlers' = Append(handlers, NewSnapshotHandler(HandlerKind, symbol))
           /\ handlerBySymbol' = DictSet(handlerBySymbol, symbol, id)
    /\ pc' = "done"
    /\ exc' = "session.snapshot"
    /\ UNCHANGED <<symbolList, handles, handleBySymbol, snapshotComplete, script, callback>>

\* The request loop is over: snapshotComplete = False, the try is entered.
EnterPollLoop ==
    /\ pc = "request"
    /\ Len(handlers) = Len(symbolList)
    /\ snapshotComplete' = FALSE
    /\ pc' = "while"
    /\ UNCHANGED <<symbolList, handlers, handles, handlerBySymbol, handleBySymbol,
                   exc, script, callback>>

\* while not snapshotComplete
LoopTest ==
    /\ pc = "while"
    /\ pc' = IF snapshotComplete THEN "finally" ELSE "process"
    /\ UNCHANGED <<symbolList, handlers, handles, handlerBySymbol, handleBySymbol,
                   snapshotComplete, exc, script, callback>>

\* The handlers whose request is open and has had no callback yet
Pending == {id \in 1..Len(handlers) : id <= Len(handles) /\ handles[id] = "open"
                                       /\ ~handlers[id].complete}

Prices == {"100"}

\* The snapshot message of an underlying: its symbol and its last trade
UnderlyingMessage(symbol, price) ==
    [fid \in {"FID_SYMBOL", "FID_LAST_REPORTED_TRADE", "FID_PERMISSION_ID"} |->
        CASE fid = "FID_SYMBOL" -> Field(symbol)
          [] fid = "FID_LAST_REPORTED_TRADE" -> Field(price)
          [] OTHER -> Field("0")]

\* session.process(): delivers the callback (on_snapshot or
\* on_snapshot_failure) of any number of the pending requests.
Process(delivered, failed) ==
    /\ pc = "process"
    /\ delivered \subseteq Pending
    /\ failed \subseteq delivered
    /\ \E price \in Prices :
         handlers' = [id \in 1..Len(handlers) |->
                      IF id \in failed THEN on_snapshot_failure(handlers[id])
                      ELSE IF id \in delivered
                           THEN on_snapshot(handlers[id],
                                            UnderlyingMessage(handlers[id].symbol, price))
                      ELSE handlers[id]]
    /\ pc' = "for"
    /\ UNCHANGED <<symbolList, handles, handlerBySymbol, handleBySymbol,
                   snapshotComplete, exc, script, callback>>

\* session.process() raises, or KeyboardInterrupt: control goes to finally.
ProcessRaises ==
    /\ pc = "process"
    /\ pc' = "finally"
    /\ exc' = "session.process"
    /\ UNCHANGED <<symbolList, handlers, handles, handlerBySymbol, handleBySymbol,
                   snapshotComplete, script, callback>>

\* Mutant of CompletionScan: the break is missing, the last handler decides
CompletionScanNoBreak(hs, ids, j, flag) ==
    IF j > Len(ids) THEN flag ELSE hs[ids[Len(ids)]].complete

\* for handler in handlerBySymbol.values():
\*     snapshotComplete = True
\*     if not handler.complete: snapshotComplete = False; break
\* from the j-th value on, the flag being `flag` before it
CompletionScan(hs, ids, j, flag) ==
    LET F[n \in j..(Len(ids) + 1)] ==
            IF n > Len(ids) THEN IF n = j THEN flag ELSE TRUE
            ELSE IF ~hs[ids[n]].complete THEN FALSE
            ELSE F[n + 1]
    IN  F[j]

ForLoop ==
    /\ pc = "for"
    /\ snapshotComplete' =
          CompletionScan(handlers, DictValues(handlerBySymbol), 1, snapshotComplete)
    /\ pc' = "while"
    /\ UNCHANGED <<symbolList, handlers, handles, handlerBySymbol, handleBySymbol,
                   exc, script, callback>>

\* finally: for handle in handleBySymbol.values(): handle.close()
CloseAll(hd, ids) ==
    [id \in 1..Len(hd) |->
        IF \E j \in 1..Len(ids) : ids[j] = id THEN "closed" ELSE hd[id]]

Finally ==
    /\ pc = "finally"
    /\ script = "equity"
    /\ handles' = CloseAll(handles, DictValues(handleBySymbol))
    /\ pc' = "done"
    /\ UNCHANGED <<symbolList, handlers, handlerBySymbol, handleBySymbol,
                   snapshotComplete, exc, script, callback>>

NextSnap ==
    \/ RequestSnapshot /\ UNCHANGED <<alertVars, optVars, mainVars>>
    \/ RequestRaises /\ UNCHANGED <<alertVars, optVars, mainVars>>
    \/ EnterPollLoop /\ UNCHANGED <<alertVars, optVars, mainVars>>
    \/ LoopTest /\ UNCHANGED <<alertVars, optVars, mainVars>>
    \/ (\E delivered \in SUBSET Pending : \E failed \in SUBSET delivered :
            Process(delivered, failed)) /\ UNCHANGED <<alertVars, optVars, mainVars>>
    \/ ProcessRaises /\ UNCHANGED <<alertVars, optVars, mainVars>>
    \/ ForLoop /\ UNCHANGED <<alertVars, optVars, mainVars>>
    \/ Finally /\ UNCHANGED <<alertVars, optVars, mainVars>>

SpecSnap == InitSnap /\ [][NextSnap]_vars

\* The script's own steps are taken when they can be (the interpreter runs),
\* and every pending request gets its callback in some session.process()
\* call. Nothing makes session.snapshot or session.process raise.
DeliverTo(id) ==
    \E delivered \in SUBSET Pending : \E failed \in SUBSET delivered :
        id \in delivered /\ Process(delivered, failed) /\ UNCHANGED <<alertVars, optVars, mainVars>>

MainStep ==
    (\/ RequestSnapshot \/ EnterPollLoop \/ LoopTest \/ ForLoop \/ Finally
     \/ \E delivered \in SUBSET Pending : \E failed \in SUBSET delivered :
            Process(delivered, failed))
    /\ UNCHANGED <<alertVars, optVars, mainVars>>

FairSnap ==
    /\ WF_vars(MainStep)
    /\ \A id \in 1..MaxSymbols : SF_vars(DeliverTo(id))

SpecSnapFair == InitSnap /\ [][NextSnap]_vars /\ FairSnap

(***************************************************************************)
(* get_current_prices_options.py                                           *)
(* A row of option_data.csv is a record                                    *)
(*   [Underlying, OptionSymbol, OptionType, StrikePrice, ExpirationDate]   *)
(* Read by read_csv, StrikePrice is a number and ExpirationDate a text;    *)
(* a new row holds the native values of the feed, or "" for a missing one. *)
(***************************************************************************)
OptionSymbols == {"X", "Y"}
DateTexts == {"M1", "M3", "M13"}

\* float(x) / astype(float) of a value of the feed; "" raises ValueError
FloatRaises(x) == x = ""
Float(x) ==
    CASE x = "100" -> 100
      [] x = "104" -> 104
      [] x = "110" -> 110

\* pd.to_datetime of a date text, in months from datetime.now()
to_datetime(x) ==
    CASE x = "M1" -> 1
      [] x = "M3" -> 3
      [] x = "M13" -> 13

\* to_csv of a datetime
date_to_csv(d) ==
    CASE d = 1 -> "M1"
      [] d = 3 -> "M3"
      [] d = 13 -> "M13"

Row(und, sym, type, strike, date) ==
    [Underlying |-> und, OptionSymbol |-> sym, OptionType |-> type,
     StrikePrice |-> strike, ExpirationDate |-> date]

\* what the feed holds for each option
FeedOption(sym) ==
    IF sym = "X" THEN [OptionType |-> "C", StrikePrice |-> "100", ExpirationDate |-> "M3"]
                 ELSE [OptionType |-> "P", StrikePrice |-> "104", ExpirationDate |-> "M1"]

\* the rows a cached option_data.csv may hold
CachedRows ==
    {Row(und, sym, "C", 100, "M3") : und \in Symbols, sym \in OptionSymbols}
    \cup {Row(und, sym, "P", 110, "M13") : und \in Symbols, sym \in OptionSymbols}

\* sort_values(by='Underlying') orders the rows by this rank
UnderlyingRank(und) ==
    CASE und = "" -> 0
      [] und = "A" -> 1
      [] und = "B" -> 2

IsSortedByUnderlying(rows) ==
    \A n \in 1..(Len(rows) - 1) :
        UnderlyingRank(rows[n].Underlying) <= UnderlyingRank(rows[n + 1].Underlying)

\* the configurations of the options script
OptionConfigs == {<<>>, <<"A">>, <<"B">>, <<"A", "B">>, <<"A", "A">>}

\* option_data.csv is written sorted by Underlying (line 474), so it is read sorted
InitOptions ==
    /\ script = "options"
    /\ symbolList \in OptionConfigs
    /\ pc = "request"
    /\ InitSnapVars
    /\ IdleAlert
    /\ IdleMain
    /\ option_data_pd \in {c \in SeqsUpTo(CachedRows, MaxCached) : IsSortedByUnderlying(c)}
    /\ options_full_file = [written |-> FALSE, rows |-> option_data_pd]
    /\ underlying_curent_prices = <<>>
    /\ u = 0
    /\ query = NoQuery
    /\ queries = <<>>
    /\ option_symbols_new = <<>>
    /\ option_data = <<>>
    /\ option_data_updated_list = <<>>
    /\ option_data_output_pd = <<>>
    /\ option_symbol_filtered = <<>>
    /\ selections = <<>>
    /\ option_data_filtered = <<>>
    /\ options_filtered_file = NoFile
    /\ snapshot_log = <<>>

\* finally of the poll loop (lines 384-390): the handlers' Symbol and
\* LastReportedTrade are collected, the handles closed; an exception in
\* flight then ends the script.
UnderlyingPrices(hs, ids) ==
    [n \in 1..Len(ids) |-> <<hs[ids[n]].data["Symbol"], hs[ids[n]].data["LastReportedTrade"]>>]

FinallyOptions ==
    /\ pc = "finally"
    /\ script = "options"
    /\ underlying_curent_prices' = UnderlyingPrices(handlers, DictValues(handlerBySymbol))
    /\ handles' = CloseAll(handles, DictValues(handleBySymbol))
    /\ pc' = IF exc = "none" THEN "query" ELSE "done"
    /\ u' = 1
    /\ UNCHANGED <<symbolList, handlers, handlerBySymbol, handleBySymbol,
                   snapshotComplete, exc, script, callback>>
    /\ UNCHANGED <<option_data_pd, query, queries, option_symbols_new, option_data,
                   option_data_updated_list, option_data_output_pd, options_full_file,
                   option_symbol_filtered, selections, option_data_filtered,
                   options_filtered_file, snapshot_log>>

\* QueryHandler.__init__ ; `matching` is the feed's side of the query: the
\* symbols that match it now, `reported` those it has passed to on_query_add
NewQueryHandler ==
    [open |-> TRUE, complete |-> FALSE, symbols |-> <<>>, count |-> None,
     raised |-> "none", matching |-> {}, reported |-> {}, started |-> FALSE]

on_query_start(q) == [q EXCEPT !.count = 0, !.started = TRUE]
\* self.count += 1 raises AttributeError while on_query_start has not set count
on_query_add(q, sym) ==
    IF q.count = None
    THEN [q EXCEPT !.raised = "AttributeError",
                   !.matching = q.matching \cup {sym}, !.reported = q.reported \cup {sym}]
    ELSE [q EXCEPT !.count = q.count + 1, !.symbols = Append(q.symbols, sym),
                   !.matching = q.matching \cup {sym}, !.reported = q.reported \cup {sym}]
on_query_remove(q, sym) == [q EXCEPT !.matching = q.matching \ {sym}]
\* on_query_complete, on_query_error and on_query_failure
on_query_complete(q) == [q EXCEPT !.complete = TRUE]

\* handler = QueryHandler(); handle = session.query(...)
StartQuery ==
    /\ pc = "query"
    /\ u <= Len(underlying_curent_prices)
    /\ query' = NewQueryHandler
    /\ pc' = "query_poll"
    /\ UNCHANGED <<option_data_pd, underlying_curent_prices, u, queries,
                   option_symbols_new, option_data, option_data_updated_list,
                   option_data_output_pd, options_full_file, option_symbol_filtered,
                   selections, option_data_filtered, options_filtered_file, snapshot_log>>

\* session.process() in `while not handler.complete`: the feed starts the
\* query, reports each matching symbol once and may report that a
\* reported symbol no longer matches.
QueryCallback ==
    /\ pc = "query_poll"
    /\ ~query.complete
    /\ \/ ~query.started /\ query' = on_query_start(query)
       \/ /\ query.started
          /\ \E sym \in OptionSymbols \ query.reported : query' = on_query_add(query, sym)
       \/ /\ query.started
          /\ \E sym \in query.matching : query' = on_query_remove(query, sym)
    /\ UNCHANGED <<option_data_pd, underlying_curent_prices, u, queries,
                   option_symbols_new, option_data, option_data_updated_list,
                   option_data_output_pd, options_full_file, option_symbol_filtered,
                   selections, option_data_filtered, options_filtered_file, snapshot_log,
                   pc>>

\* Mutant of CachedOf: the cache is not restricted to the underlying
CachedOfAnyUnderlying(frame, underlying) == frame

\* option_data_pd[option_data_pd['Underlying'] == symbol[0]]
CachedOf(frame, underlying) ==
    SelectSeq(frame, LAMBDA row : row.Underlying = underlying)

RowsOfSymbol(frame, sym) == SelectSeq(frame, LAMBDA row : row.OptionSymbol = sym)

\* option_symbols_pd.merge(right, how='inner', on='OptionSymbol'): for each
\* symbol of the list in order, the rows of `right` that carry it
RECURSIVE MergeInner(_, _)
MergeInner(option_symbols, right) ==
    IF option_symbols = <<>> THEN <<>>
    ELSE RowsOfSymbol(right, Head(option_symbols))
            \o MergeInner(Tail(option_symbols), right)

\* option_symbols_pd.merge(option_data_pd[['OptionSymbol', 'Check']],
\*     how='left', on='OptionSymbol').query('Check.isna()'):
\* the symbols of the list that no row of the whole cache carries
NewSymbols(option_symbols, frame) ==
    SelectSeq(option_symbols, LAMBDA sym : RowsOfSymbol(frame, sym) = <<>>)

\* on_query_complete, on_query_error or on_query_failure ends the poll
\* loop; finally: option_symbols = handler.symbols, handle.close(); then
\* the two merges (lines 418-440).
NextUnderlying == /\ u' = u + 1
                  /\ pc' = "query"

FinishQuery ==
    /\ pc = "query_poll"
    /\ LET q == on_query_complete(query)
           symbol == underlying_curent_prices[u]
           option_symbols == q.symbols
           new == NewSymbols(option_symbols, option_data_pd)
       IN  /\ query' = [q EXCEPT !.open = FALSE]
           /\ queries' = Append(queries, [symbol |-> symbol[1],
                                          option_symbols |-> option_symbols])
           /\ option_data_updated_list' =
                 Append(option_data_updated_list,
                        MergeInner(option_symbols, CachedOf(option_data_pd, symbol[1])))
           /\ option_symbols_new' = new
           /\ IF new = <<>> THEN NextUnderlying
                            ELSE pc' = "new_snapshot" /\ UNCHANGED u
    /\ UNCHANGED <<option_data_pd, underlying_curent_prices, option_data,
                   option_data_output_pd, options_full_file, option_symbol_filtered,
                   selections, option_data_filtered, options_filtered_file, snapshot_log>>

\* The snapshot message of an option
OptionMessage(sym) ==
    [fid \in {"FID_SYMBOL", "FID_STRIKE_PRICE", "FID_EXPIRATION_DATE",
              "FID_OPTION_TYPE", "FID_PERMISSION_ID"} |->
        CASE fid = "FID_SYMBOL" -> Field(sym)
          [] fid = "FID_STRIKE_PRICE" -> Field(FeedOption(sym).StrikePrice)
          [] fid = "FID_EXPIRATION_DATE" -> Field(FeedOption(sym).ExpirationDate)
          [] fid = "FID_OPTION_TYPE" -> Field(FeedOption(sym).OptionType)
          [] OTHER -> Field("0")]

\* handler = SnapshotHandlerOptionInfo(); session.snapshot(...); the poll
\* loop until handler.complete: the handler as the loop leaves it
SnapshotOption(sym, failed) ==
    IF failed THEN on_snapshot_failure(NewSnapshotHandler("option", sym))
    ELSE on_snapshot(NewSnapshotHandler("option", sym), OptionMessage(sym))

\* One iteration of the loop over option_symbols_new (lines 445-461)
NewOptionSnapshot(failed) ==
    /\ pc = "new_snapshot"
    /\ LET sym == Head(option_symbols_new)
           symbol == underlying_curent_prices[u]
           handler == SnapshotOption(sym, failed)
       IN  /\ option_data' = Append(option_data,
                 Row(symbol[1], handler.data["Symbol"], handler.data["OptionType"],
                     handler.data["StrikePrice"], handler.data["ExpirationDate"]))
           /\ snapshot_log' = Append(snapshot_log,
                 [loop |-> "new", underlying |-> symbol[1], symbol |-> sym])
    /\ option_symbols_new' = Tail(option_symbols_new)
    /\ IF Tail(option_symbols_new) = <<>> THEN NextUnderlying
                                          ELSE UNCHANGED <<pc, u>>
    /\ UNCHANGED <<option_data_pd, underlying_curent_prices, query, queries,
                   option_data_updated_list, option_data_output_pd, options_full_file,
                   option_symbol_filtered, selections, option_data_filtered,
                   options_filtered_file>>

\* pd.concat of a list of frames
RECURSIVE Concat(_)
Concat(frames) == IF frames = <<>> THEN <<>> ELSE Head(frames) \o Concat(Tail(frames))

\* sort_values(by='Underlying'): rows in the order of their Underlying
\* (rows of one Underlying keep their order here)
RECURSIVE InsertByUnderlying(_, _)
InsertByUnderlying(sorted, row) ==
    IF sorted = <<>> THEN <<row>>
    ELSE IF UnderlyingRank(Head(sorted).Underlying) <= UnderlyingRank(row.Underlying)
         THEN <<Head(sorted)>> \o InsertByUnderlying(Tail(sorted), row)
         ELSE <<row>> \o sorted

RECURSIVE SortByUnderlying(_)
SortByUnderlying(rows) ==
    IF rows = <<>> THEN <<>>
    ELSE InsertByUnderlying(SortByUnderlying(SubSeq(rows, 1, Len(rows) - 1)),
                            rows[Len(rows)])

\* astype(float) of StrikePrice and to_datetime of ExpirationDate, on a
\* cached row (StrikePrice was parsed by read_csv) and on a new row
ConvertCachedRow(row) == [row EXCEPT !.ExpirationDate = to_datetime(@)]
ConvertNewRow(row) ==
    [row EXCEPT !.StrikePrice = Float(@), !.ExpirationDate = to_datetime(@)]

\* to_csv of a row of the output frame
RowToCsv(row) == [row EXCEPT !.ExpirationDate = date_to_csv(@)]

ConvertCachedRows(rows) == [n \in 1..Len(rows) |-> ConvertCachedRow(rows[n])]
ConvertNewRows(rows) == [n \in 1..Len(rows) |-> ConvertNewRow(rows[n])]
RowsToCsv(rows) == [n \in 1..Len(rows) |-> RowToCsv(rows[n])]

\* Lines 463-481: concat, sort, convert, save. pd.concat raises ValueError
\* on an empty list and astype(float) on a StrikePrice of "".
CombineAndSave ==
    /\ pc = "query"
    /\ u > Len(underlying_curent_prices)
    /\ LET nothing == option_data_updated_list = <<>> /\ option_data = <<>>
           bad == \E n \in 1..Len(option_data) : FloatRaises(option_data[n].StrikePrice)
           output == SortByUnderlying(
                        ConvertCachedRows(Concat(option_data_updated_list))
                        \o ConvertNewRows(option_data))
       IN  IF nothing \/ bad
           THEN /\ pc' = "done"
                /\ exc' = "ValueError"
                /\ UNCHANGED <<option_data_output_pd, options_full_file, u>>
           ELSE /\ option_data_output_pd' = output
                /\ options_full_file' = [written |-> TRUE, rows |-> RowsToCsv(output)]
                /\ pc' = "filter"
                /\ u' = 1
                /\ UNCHANGED exc
    /\ UNCHANGED <<option_data_pd, underlying_curent_prices, query, queries,
                   option_symbols_new, option_data, option_data_updated_list,
                   option_symbol_filtered, selections, option_data_filtered,
                   options_filtered_file, snapshot_log>>

\* Lines 495-500: StrikePrice within [0.95, 1.05] of the current price and
\* ExpirationDate in (now, now + 12 months]
InStrikeAndDateWindow(row, current_price) ==
    /\ row.StrikePrice * 100 >= current_price * 95
    /\ row.StrikePrice * 100 <= current_price * 105
    /\ row.ExpirationDate > 0
    /\ row.ExpirationDate <= 12

\* Lines 487-500 for the u-th underlying; float("") raises ValueError
FilterUnderlying ==
    /\ pc = "filter"
    /\ u <= Len(underlying_curent_prices)
    /\ LET symbol == underlying_curent_prices[u] IN
       IF FloatRaises(symbol[2])
       THEN /\ pc' = "done"
            /\ exc' = "ValueError"
            /\ UNCHANGED <<u, option_symbol_filtered, selections>>
       ELSE LET current_price == Float(symbol[2])
                selected == SelectSeq(CachedOf(option_data_output_pd, symbol[1]),
                               LAMBDA row : InStrikeAndDateWindow(row, current_price))
            IN  /\ option_symbol_filtered' = selected
                /\ selections' = Append(selections,
                      [underlying |-> symbol[1], current_price |-> current_price,
                       rows |-> selected])
                /\ IF selected = <<>> THEN u' = u + 1 /\ UNCHANGED pc
                                      ELSE pc' = "filtered_snapshot" /\ UNCHANGED u
                /\ UNCHANGED exc
    /\ UNCHANGED <<option_data_pd, underlying_curent_prices, query, queries,
                   option_symbols_new, option_data, option_data_updated_list,
                   option_data_output_pd, options_full_file, option_data_filtered,
                   options_filtered_file, snapshot_log>>

\* One iteration of the loop over option_symbol_filtered (lines 505-519)
FilteredOptionSnapshot(failed) ==
    /\ pc = "filtered_snapshot"
    /\ LET sym == Head(option_symbol_filtered).OptionSymbol
           symbol == underlying_curent_prices[u]
           handler == SnapshotOption(sym, failed)
       IN  /\ option_data_filtered' = Append(option_data_filtered,
                 [Underlying |-> symbol[1], data |-> handler.data])
           /\ snapshot_log' = Append(snapshot_log,
                 [loop |-> "filtered", underlying |-> symbol[1], symbol |-> sym])
    /\ option_symbol_filtered' = Tail(option_symbol_filtered)
    /\ IF Tail(option_symbol_filtered) = <<>>
       THEN u' = u + 1 /\ pc' = "filter"
       ELSE UNCHANGED <<pc, u>>
    /\ UNCHANGED <<option_data_pd, underlying_curent_prices, query, queries,
                   option_symbols_new, option_data, option_data_updated_list,
                   option_data_output_pd, options_full_file, selections,
                   options_filtered_file>>

\* Lines 521-543: option_data_filtered.csv is written
SaveFiltered ==
    /\ pc = "filter"
    /\ u > Len(underlying_curent_prices)
    /\ options_filtered_file' = [written |-> TRUE, rows |-> option_data_filtered]
    /\ pc' = "done"
    /\ UNCHANGED <<option_data_pd, underlying_curent_prices, u, query, queries,
                   option_symbols_new, option_data, option_data_updated_list,
                   option_data_output_pd, options_full_file, option_symbol_filtered,
                   selections, option_data_filtered, snapshot_log>>

\* the variables of the poll loop other than pc and exc
snapData == <<symbolList, handlers, handles, handlerBySymbol, handleBySymbol,
              snapshotComplete, script, callback>>

NextOptions ==
    \/ RequestSnapshot /\ UNCHANGED <<alertVars, optVars, mainVars>>
    \/ RequestRaises /\ UNCHANGED <<alertVars, optVars, mainVars>>
    \/ EnterPollLoop /\ UNCHANGED <<alertVars, optVars, mainVars>>
    \/ LoopTest /\ UNCHANGED <<alertVars, optVars, mainVars>>
    \/ (\E delivered \in SUBSET Pending : \E failed \in SUBSET delivered :
            Process(delivered, failed)) /\ UNCHANGED <<alertVars, optVars, mainVars>>
    \/ ProcessRaises /\ UNCHANGED <<alertVars, optVars, mainVars>>
    \/ ForLoop /\ UNCHANGED <<alertVars, optVars, mainVars>>
    \/ FinallyOptions /\ UNCHANGED <<alertVars, mainVars>>
    \/ StartQuery /\ UNCHANGED <<alertVars, mainVars, snapData, exc>>
    \/ QueryCallback /\ UNCHANGED <<alertVars, mainVars, snapData, exc>>
    \/ FinishQuery /\ UNCHANGED <<alertVars, mainVars, snapData, exc>>
    \/ (\E failed \in BOOLEAN : NewOptionSnapshot(failed))
          /\ UNCHANGED <<alertVars, mainVars, snapData, exc>>
    \/ CombineAndSave /\ UNCHANGED <<alertVars, mainVars, snapData>>
    \/ FilterUnderlying /\ UNCHANGED <<alertVars, mainVars, snapData>>
    \/ (\E failed \in BOOLEAN : FilteredOptionSnapshot(failed))
          /\ UNCHANGED <<alertVars, mainVars, snapData, exc>>
    \/ SaveFiltered /\ UNCHANGED <<alertVars, mainVars, snapData, exc>>

SpecOptions == InitOptions /\ [][NextOptions]_vars

(***************************************************************************)
(* price_alert.py: the main thread (lines 97-147) and the watcher thread   *)
(* of config_watch_timer (lines 85-94).  An alert of the configuration is  *)
(* its alertID; its handler is the SubscriptionHandlerAlert of SpecAlert,  *)
(* of which the main loop reads only `error`.  st_mtime counts the         *)
(* modifications of the file.                                              *)
(***************************************************************************)
MaxModifications == 2

AlertIDs == {1, 2}
\* config['alerts'] of a configuration file
AlertLists == {<<>>, <<1>>, <<1, 2>>, <<1, 1>>}

\* lines 97-106: flags initialised, file read, timer started
InitMain ==
    /\ IdleAlert
    /\ IdleSnap
    /\ IdleOptions
    /\ config_file \in [mtime : {0}, alerts : AlertLists]
    /\ config_modified_time = config_file.mtime
    /\ config_updated = FALSE
    /\ config = config_file.alerts
    /\ loaded_mtime = config_file.mtime
    /\ subscriptions = <<>>
    /\ generation = 0
    /\ handler_by_alertID = EmptyDict
    /\ handle_by_alertID = EmptyDict
    /\ subscriptionError = FALSE
    /\ main_pc = "configure"
    /\ main_exc = "none"
    /\ watch_pc = "wait"
    /\ timer_cancelled = FALSE

\* handler = SubscriptionHandlerAlert(alert); handle = session.subscribe(...)
Subscribe(alertID, gen) ==
    [alertID |-> alertID, generation |-> gen, open |-> TRUE, error |-> FALSE]

\* the subscriptions made for the first n alerts of the list
Subscribed(alerts, n, gen) == [j \in 1..n |-> Subscribe(alerts[j], gen)]

\* handler_by_alertID / handle_by_alertID after the first n iterations of
\* `for alert in config['alerts']`; `base` subscriptions existed before
RECURSIVE ByAlertID(_, _, _)
ByAlertID(alerts, n, base) ==
    IF n = 0 THEN EmptyDict
    ELSE DictSet(ByAlertID(alerts, n - 1, base), alerts[n], base + n)

\* configure_subscriptions(config), called at line 114 (before the try) and
\* at line 137 (inside it).  raise_at = 0: every session.subscribe returns;
\* raise_at = k: the k-th one raises, the function's local dicts are lost.
configure_subscriptions(raise_at) ==
    /\ main_pc \in {"configure", "reconfigure"}
    /\ generation' = generation + 1
    /\ IF raise_at = 0
       THEN /\ subscriptions' = subscriptions
                   \o Subscribed(config, Len(config), generation + 1)
            /\ handler_by_alertID' = ByAlertID(config, Len(config), Len(subscriptions))
            /\ handle_by_alertID' = ByAlertID(config, Len(config), Len(subscriptions))
            /\ main_pc' = IF main_pc = "configure" THEN "while" ELSE "reset"
            /\ UNCHANGED main_exc
       ELSE /\ subscriptions' = subscriptions
                   \o Subscribed(config, raise_at - 1, generation + 1)
            /\ main_exc' = "session.subscribe"
            /\ main_pc' = IF main_pc = "configure" THEN "done" ELSE "finally"
            /\ UNCHANGED <<handler_by_alertID, handle_by_alertID>>
    /\ UNCHANGED <<config_file, config_modified_time, config_updated, config,
                   loaded_mtime, subscriptionError, watch_pc, timer_cancelled>>

\* while not subscriptionError
AlertLoopTest ==
    /\ main_pc = "while"
    /\ main_pc' = IF subscriptionError THEN "finally" ELSE "process"
    /\ UNCHANGED <<config_file, config_modified_time, config_updated, config,
                   loaded_mtime, subscriptions, generation, handler_by_alertID,
                   handle_by_alertID, subscriptionError, main_exc, watch_pc,
                   timer_cancelled>>

OpenSubscriptions == {id \in 1..Len(subscriptions) : subscriptions[id].open}

\* session.process(): the open subscriptions get their callbacks; those in
\* `errors` get on_subscription_error or on_subscription_failure
ProcessSubscriptions(errors) ==
    /\ main_pc = "process"
    /\ subscriptions' = [id \in 1..Len(subscriptions) |->
            IF id \in errors THEN [subscriptions[id] EXCEPT !.error = TRUE]
                             ELSE subscriptions[id]]
    /\ main_pc' = "scan"
    /\ UNCHANGED <<config_file, config_modified_time, config_updated, config,
                   loaded_mtime, generation, handler_by_alertID, handle_by_alertID,
                   subscriptionError, main_exc, watch_pc, timer_cancelled>>

\* for handler in handler_by_alertID.values(): if handler.error: ... break
ErrorScan ==
    /\ main_pc = "scan"
    /\ subscriptionError' =
          (subscriptionError \/ \E j \in 1..Len(handler_by_alertID) :
                                    subscriptions[handler_by_alertID[j].v].error)
    /\ main_pc' = "check"
    /\ UNCHANGED <<config_file, config_modified_time, config_updated, config,
                   loaded_mtime, subscriptions, generation, handler_by_alertID,
                   handle_by_alertID, main_exc, watch_pc, timer_cancelled>>

\* if config_updated and not subscriptionError
CheckConfigUpdated ==
    /\ main_pc = "check"
    /\ main_pc' = IF config_updated /\ ~subscriptionError THEN "close" ELSE "while"
    /\ UNCHANGED <<config_file, config_modified_time, config_updated, config,
                   loaded_mtime, subscriptions, generation, handler_by_alertID,
                   handle_by_alertID, subscriptionError, main_exc, watch_pc,
                   timer_cancelled>>

\* for handle in handle_by_alertID.values(): handle.close()
CloseHandles(subs, ids) ==
    [id \in 1..Len(subs) |->
        IF \E j \in 1..Len(ids) : ids[j] = id THEN [subs[id] EXCEPT !.open = FALSE]
                                              ELSE subs[id]]

\* lines 131-134: the handles are closed, handler_by_alertID is cleared
CloseSubscriptions ==
    /\ main_pc = "close"
    /\ subscriptions' = CloseHandles(subscriptions, DictValues(handle_by_alertID))
    /\ handler_by_alertID' = EmptyDict
    /\ main_pc' = "load"
    /\ UNCHANGED <<config_file, config_modified_time, config_updated, config,
                   loaded_mtime, generation, handle_by_alertID, subscriptionError,
                   main_exc, watch_pc, timer_cancelled>>

\* config = load_config(config_path)
load_config ==
    /\ main_pc = "load"
    /\ config' = config_file.alerts
    /\ loaded_mtime' = config_file.mtime
    /\ main_pc' = "reconfigure"
    /\ UNCHANGED <<config_file, config_modified_time, config_updated,
                   subscriptions, generation, handler_by_alertID, handle_by_alertID,
                   subscriptionError, main_exc, watch_pc, timer_cancelled>>

\* config_updated = False (line 140)
ResetConfigUpdated ==
    /\ main_pc = "reset"
    /\ config_updated' = FALSE
    /\ main_pc' = "while"
    /\ UNCHANGED <<config_file, config_modified_time, config, loaded_mtime,
                   subscriptions, generation, handler_by_alertID, handle_by_alertID,
                   subscriptionError, main_exc, watch_pc, timer_cancelled>>

\* Ctrl-C inside the try block: except KeyboardInterrupt: pass
TryBlock == {"while", "process", "scan", "check", "close", "load", "reset"}

KeyboardInterrupt ==
    /\ main_pc \in TryBlock
    /\ main_exc' = "KeyboardInterrupt"
    /\ main_pc' = "finally"
    /\ UNCHANGED <<config_file, config_modified_time, config_updated, config,
                   loaded_mtime, subscriptions, generation, handler_by_alertID,
                   handle_by_alertID, subscriptionError, watch_pc, timer_cancelled>>

\* finally: the handles of handle_by_alertID are closed, the timer cancelled
FinallyAlerts ==
    /\ main_pc = "finally"
    /\ subscriptions' = CloseHandles(subscriptions, DictValues(handle_by_alertID))
    /\ timer_cancelled' = TRUE
    /\ main_pc' = "done"
    /\ UNCHANGED <<config_file, config_modified_time, config_updated, config,
                   loaded_mtime, generation, handler_by_alertID, handle_by_alertID,
                   subscriptionError, main_exc, watch_pc>>

\* watch_config_file (lines 85-94), run by the timer's thread.  Its last
\* statement, config_watch_timer.run(), waits for the interval and calls
\* watch_config_file again unless the timer was cancelled: the thread is a
\* loop of waits and checks (the growth of its call stack is not modelled).
WatchTest ==
    /\ watch_pc = "wait"
    /\ ~timer_cancelled
    /\ watch_pc' = IF config_file.mtime > config_modified_time THEN "stat" ELSE "wait"
    /\ UNCHANGED <<config_file, config_modified_time, config_updated, config,
                   loaded_mtime, subscriptions, generation, handler_by_alertID,
                   handle_by_alertID, subscriptionError, main_pc, main_exc,
                   timer_cancelled>>

\* config_modified_time = config_path.stat().st_mtime
WatchStat ==
    /\ watch_pc = "stat"
    /\ config_modified_time' = config_file.mtime
    /\ watch_pc' = "set"
    /\ UNCHANGED <<config_file, config_updated, config, loaded_mtime,
                   subscriptions, generation, handler_by_alertID, handle_by_alertID,
                   subscriptionError, main_pc, main_exc, timer_cancelled>>

\* config_updated = True
WatchSet ==
    /\ watch_pc = "set"
    /\ config_updated' = TRUE
    /\ watch_pc' = "wait"
    /\ UNCHANGED <<config_file, config_modified_time, config, loaded_mtime,
                   subscriptions, generation, handler_by_alertID, handle_by_alertID,
                   subscriptionError, main_pc, main_exc, timer_cancelled>>

\* Timer.run() after cancel(): finished is set, the function is not called
WatchCancelled ==
    /\ watch_pc = "wait"
    /\ timer_cancelled
    /\ watch_pc' = "stopped"
    /\ UNCHANGED <<config_file, config_modified_time, config_updated, config,
                   loaded_mtime, subscriptions, generation, handler_by_alertID,
                   handle_by_alertID, subscriptionError, main_pc, main_exc,
                   timer_cancelled>>

watch_config_file == WatchTest \/ WatchStat \/ WatchSet \/ WatchCancelled

\* Somebody rewrites the configuration file while the main loop runs
ModifyConfigFile(alerts) ==
    /\ main_pc \in TryBlock \cup {"reconfigure"}
    /\ config_file.mtime < MaxModifications
    /\ config_file' = [mtime |-> config_file.mtime + 1, alerts |-> alerts]
    /\ UNCHANGED <<config_modified_time, config_updated, config, loaded_mtime,
                   subscriptions, generation, handler_by_alertID, handle_by_alertID,
                   subscriptionError, main_pc, main_exc, watch_pc, timer_cancelled>>

MainThread ==
    \/ configure_subscriptions(0)
    \/ AlertLoopTest
    \/ \E errors \in SUBSET OpenSubscriptions : ProcessSubscriptions(errors)
    \/ ErrorScan
    \/ CheckConfigUpdated
    \/ CloseSubscriptions
    \/ load_config
    \/ ResetConfigUpdated
    \/ FinallyAlerts

OtherScriptsIdle == UNCHANGED <<alertVars, snapVars, optVars>>

NextMain ==
    \/ MainThread /\ OtherScriptsIdle
    \/ (\E k \in 1..Len(config) : configure_subscriptions(k)) /\ OtherScriptsIdle
    \/ KeyboardInterrupt /\ OtherScriptsIdle
    \/ watch_config_file /\ OtherScriptsIdle
    \/ (\E alerts \in AlertLists : ModifyConfigFile(alerts)) /\ OtherScriptsIdle

SpecMain == InitMain /\ [][NextMain]_vars

\* Both threads keep running: the interpreter schedules each of them and
\* the timer's interval elapses.  Nothing forces an exception, a
\* subscription error, Ctrl-C or a modification of the file.
FairMain ==
    /\ WF_vars(MainThread /\ OtherScriptsIdle)
    /\ WF_vars(watch_config_file /\ OtherScriptsIdle)

SpecMainFair == InitMain /\ [][NextMain]_vars /\ FairMain

(***************************************************************************)
(* Claims about SubscriptionHandlerAlert (SpecAlert)                       *)
(***************************************************************************)
LastTrade == history[Len(history)]
\* the Trade value of the update before the last one (None: there is none)
TradeBefore == IF Len(history) > 1 THEN history[Len(history) - 1] ELSE None
PostsByLastCall == Len(http_log) - call.log_before

\* C1: for a ">" (respectively "<") alert, a call of on_subscription_update
\* whose Trade value is greater (less) than alert['value'], made while
\* alert_sent is False, issues exactly one POST to the alert's endpoint; a
\* call whose Trade value does not satisfy the comparison issues no POST.
C1_Satisfied ==
    /\ LastTrade # None
    /\ \/ alert.condition = ">" /\ LastTrade > alert.value
       \/ alert.condition = "<" /\ LastTrade < alert.value

C1_ThresholdAlertPosts ==
    (call.made /\ alert.condition \in {">", "<"}) =>
        /\ (C1_Satisfied /\ ~call.sent_before) =>
              /\ PostsByLastCall = 1
              /\ http_log[Len(http_log)].url = alert.endpoint
        /\ ~C1_Satisfied => PostsByLastCall = 0

C1_Witness ==
    /\ call.made /\ alert.condition = ">" /\ C1_Satisfied
    /\ ~call.sent_before /\ PostsByLastCall = 1
    /\ Len(history) > 1 /\ TradeBefore # None /\ TradeBefore <= alert.value

\* The updates the crossing claims speak of: the last update and the one
\* before it (if any) carry a Trade value.
CrossingCase(cond) ==
    /\ call.made /\ alert.condition = cond
    /\ LastTrade # None
    /\ Len(history) > 1 => TradeBefore # None

\* C2: a "cross above" alert is triggered exactly when an earlier update was
\* processed by the handler, the previous Trade value was not above
\* alert['value'] and the current one is; never on the first update.
C2_CrossAboveTriggers ==
    CrossingCase("cross above") =>
        (call.triggered <=>
            /\ Len(history) > 1
            /\ ~(TradeBefore > alert.value)
            /\ LastTrade > alert.value)

C2_Witness ==
    /\ CrossingCase("cross above") /\ call.triggered
    /\ Len(history) > 1 /\ TradeBefore <= alert.value /\ LastTrade > alert.value
    /\ PostsByLastCall = 1

\* C3: a "cross below" alert that carries the keys of a "cross above" alert
\* (no 'price') is triggered exactly when an earlier update was processed,
\* the previous Trade value was not below alert['value'] and the current
\* one is.
C3_CrossBelowTriggers ==
    (CrossingCase("cross below") /\ "price" \notin DOMAIN alert) =>
        (call.triggered <=>
            /\ Len(history) > 1
            /\ ~(TradeBefore < alert.value)
            /\ LastTrade < alert.value)

(***************************************************************************)
(* Claims about the snapshot scripts (SpecSnap, SpecSnapFair)              *)
(***************************************************************************)
\* C4: the poll loop terminates for every configured symbol list, the
\* empty list included, when every requested snapshot gets its callback.
C4_PollLoopTerminates == <>(pc = "done")

\* the same for the symbol lists that are not empty
C4_NonEmptyTerminates == (symbolList # <<>>) => <>(pc = "done")

\* C5: every handle session.snapshot returned is closed when the script
\* ends, normally or by an exception.
C5_AllHandlesClosed ==
    pc = "done" => \A id \in 1..Len(handles) : handles[id] = "closed"

\* C9: at normal exit of the poll loop every handler in handlerBySymbol has
\* had on_snapshot or on_snapshot_failure (complete is True).
LoopExitedNormally == pc = "finally" /\ exc = "none"

C9_ExitOnlyWhenComplete ==
    LoopExitedNormally =>
        \A j \in 1..Len(handlerBySymbol) : handlers[handlerBySymbol[j].v].complete

C9_Witness ==
    /\ LoopExitedNormally
    /\ Len(handlerBySymbol) >= 2
    /\ \A j \in 1..Len(handlerBySymbol) : handlers[handlerBySymbol[j].v].complete

(***************************************************************************)
(* Claims about the snapshot handlers (SpecHandler)                        *)
(***************************************************************************)
\* the field of the last message that is named k, if there is one
FieldsNamed(k) == {fid \in DOMAIN callback.fields : get_field_name(fid) = k}

\* C10: for SnapshotHandlerTradeInfo and SnapshotHandlerOptionInfo, after
\* any sequence of callbacks: complete is False until the first on_snapshot
\* or on_snapshot_failure and True after it; the key set of data never
\* changes; on_snapshot sets data[k] to the native value of the message
\* field named k for each key k in the message and leaves the other keys
\* unchanged; on_snapshot_failure leaves data unchanged.
C10_HandlerFrame ==
    script = "handler" =>
        LET h == handlers[1] IN
        /\ h.complete <=> callback.count > 0
        /\ DOMAIN h.data = DOMAIN InitialData(h.kind)
        /\ (callback.made /\ callback.name = "on_snapshot") =>
              \A k \in DOMAIN h.data :
                 IF FieldsNamed(k) # {}
                 THEN \E fid \in FieldsNamed(k) : h.data[k] = callback.fields[fid].wrapped
                 ELSE h.data[k] = callback.data_before[k]
        /\ (callback.made /\ callback.name = "on_snapshot_failure") =>
              h.data = callback.data_before

C10_Witness ==
    /\ script = "handler" /\ callback.count = 2 /\ callback.name = "on_snapshot"
    /\ handlers[1].kind = "option"
    /\ "FID_PERMISSION_ID" \in DOMAIN callback.fields
    /\ "FID_STRIKE_PRICE" \in DOMAIN callback.fields
    /\ "FID_SYMBOL" \notin DOMAIN callback.fields
    /\ handlers[1].data["Symbol"] = "A"
    /\ handlers[1].data["StrikePrice"] = "100"
    /\ callback.data_before["StrikePrice"] = "A"

(***************************************************************************)
(* Claims about the option-chain reconciliation (SpecOptions)              *)
(***************************************************************************)
Configured == {symbolList[n] : n \in 1..Len(symbolList)}
Elements(seq) == {seq[n] : n \in 1..Len(seq)}
Occurrences(seq, x) == Cardinality({n \in 1..Len(seq) : seq[n] = x})
CountWhere(seq, P(_)) == Cardinality({n \in 1..Len(seq) : P(seq[n])})

\* the cached rows of an underlying, and those that carry an option symbol
CachedUnder(und) == {row \in Elements(option_data_pd) : row.Underlying = und}

\* C6: in the rewritten option_data.csv, for each configured underlying
\* that was queried, the cached rows of that underlying whose OptionSymbol
\* the query returned are each kept once, with their cached OptionType,
\* StrikePrice and ExpirationDate, and its other cached rows are absent.
C6_CachedRowsKept ==
    options_full_file.written =>
        \A n \in 1..Len(queries) :
            queries[n].symbol \in Configured =>
                \A row \in CachedUnder(queries[n].symbol) :
                    Occurrences(options_full_file.rows, row) =
                        IF row.OptionSymbol \in Elements(queries[n].option_symbols)
                        THEN Occurrences(option_data_pd, row)
                        ELSE 0

C6_Witness ==
    /\ options_full_file.written
    /\ \E n \in 1..Len(queries) :
          /\ queries[n].symbol \in Configured
          /\ \E kept, dropped \in CachedUnder(queries[n].symbol) :
                /\ kept.OptionSymbol \in Elements(queries[n].option_symbols)
                /\ dropped.OptionSymbol \notin Elements(queries[n].option_symbols)
                /\ Occurrences(options_full_file.rows, kept) = 1
                /\ Occurrences(options_full_file.rows, dropped) = 0

\* C7: every option symbol a configured underlying's query returned that
\* has no cached row under that underlying is snapshotted exactly once and
\* is exactly one row, with that underlying and that symbol, of the
\* rewritten option_data.csv.
C7_NewOptionsAdded ==
    options_full_file.written =>
        \A n \in 1..Len(queries) :
            queries[n].symbol \in Configured =>
                \A sym \in Elements(queries[n].option_symbols) :
                    (\A row \in CachedUnder(queries[n].symbol) : row.OptionSymbol # sym) =>
                        /\ CountWhere(snapshot_log,
                              LAMBDA e : /\ e.loop = "new"
                                         /\ e.underlying = queries[n].symbol
                                         /\ e.symbol = sym) = 1
                        /\ CountWhere(options_full_file.rows,
                              LAMBDA row : /\ row.Underlying = queries[n].symbol
                                           /\ row.OptionSymbol = sym) = 1

\* C8: the options selected for an underlying are exactly its options with
\* a strike within 2% of the current price and an expiration date between
\* 2 and 4 months from now.
C8_Within2PercentAnd2To4Months(row, current_price) ==
    /\ row.StrikePrice * 100 >= current_price * 98
    /\ row.StrikePrice * 100 <= current_price * 102
    /\ row.ExpirationDate >= 2
    /\ row.ExpirationDate <= 4

C8_FilterSelection ==
    \A n \in 1..Len(selections) :
        selections[n].rows =
            SelectSeq(CachedOf(option_data_output_pd, selections[n].underlying),
                      LAMBDA row : C8_Within2PercentAnd2To4Months(
                                       row, selections[n].current_price))

\* C11: when a started query has completed, handler.symbols holds exactly
\* the symbols that match the query (added and not removed since), each
\* once, and handler.count equals len(handler.symbols).
C11_SymbolsMatchQuery ==
    (query # NoQuery /\ query.complete /\ query.started) =>
        /\ Elements(query.symbols) = query.matching
        /\ \A sym \in query.matching : Occurrences(query.symbols, sym) = 1
        /\ query.count = Len(query.symbols)

(***************************************************************************)
(* Claims about the price_alert main loop (SpecMain, SpecMainFair)         *)
(***************************************************************************)
\* the configuration generations that have an open subscription
OpenGenerations == {subscriptions[id].generation : id \in OpenSubscriptions}

OpenFor(alertID) == {id \in OpenSubscriptions : subscriptions[id].alertID = alertID}

\* C12: subscriptions of two configuration generations are never open
\* together (the old handles are closed before the new subscriptions are
\* made), and when a reload ends (line 140) exactly one subscription per
\* alert of the loaded configuration is open and config_updated is False.
C12_ReloadReplacesSubscriptions ==
    [][/\ Cardinality(OpenGenerations') <= 1
       /\ (main_pc = "reset" /\ main_pc' = "while") =>
             /\ config_updated' = FALSE
             /\ \A alertID \in AlertIDs :
                   Cardinality(OpenFor(alertID)') = Occurrences(config', alertID)]_vars

\* C13: every modification of the configuration file made while the main
\* loop runs is eventually followed by a reload that reads the file as it
\* is at or after that modification (or the main loop has ended).
C13_NoModificationLost ==
    \A m \in 1..MaxModifications :
        (config_file.mtime = m) ~> (loaded_mtime >= m \/ main_pc \in {"finally", "done"})

(***************************************************************************)
(* Further claims about the option-chain reconciliation (SpecOptions)      *)
(***************************************************************************)
\* the row's underlying was queried and the query did not return its symbol
QueriedAndNotReturned(row) ==
    \E n \in 1..Len(queries) :
        /\ queries[n].symbol = row.Underlying
        /\ row.OptionSymbol \notin Elements(queries[n].option_symbols)

\* C14: the rewritten option_data.csv lacks a cached row only if the row's
\* option symbol was queried and not returned for its underlying; the
\* cached rows of underlyings that are not configured are all kept.
C14_OnlyInactiveRowsDropped ==
    options_full_file.written =>
        \A row \in Elements(option_data_pd) :
            \/ Occurrences(options_full_file.rows, row) = Occurrences(option_data_pd, row)
            \/ row.Underlying \in Configured /\ QueriedAndNotReturned(row)

(***************************************************************************)
(* Further claims about SubscriptionHandlerAlert (SpecAlert)               *)
(***************************************************************************)
PostIssued == Len(http_log') = Len(http_log) + 1
LastResponse == http_log[Len(http_log)].status

\* C15: alert_sent becomes True only on an HTTP 200 response and never
\* reverts; once it is True the handler issues no further POST; a non-200
\* response leaves it False, and the next update that triggers the
\* condition while it is False issues a new POST.
C15_AlertSentLatch ==
    [][/\ alert_sent => (alert_sent' /\ http_log' = http_log)
       /\ (~alert_sent /\ alert_sent') => (PostIssued /\ LastResponse' = HTTP_OK)
       /\ (PostIssued /\ LastResponse' # HTTP_OK) => ~alert_sent'
       /\ (~alert_sent /\ history' # history /\ call'.triggered) => PostIssued
       /\ (http_log' = http_log \/ PostIssued)]_vars

C15_Witness ==
    /\ Len(http_log) = 2
    /\ http_log[1].status # HTTP_OK
    /\ http_log[2].status = HTTP_OK
    /\ alert_sent
    /\ call.made /\ call.triggered /\ call.sent_before
    /\ PostsByLastCall = 0

====
